---- MODULE Spec2Model ----
(***************************************************************************)
(* EasySandbox: the fixed-region sbrk of EasySandbox.c and the first-fit   *)
(* allocator of malloc.c (malloc, free, calloc, realloc over a doubly      *)
(* linked list of block headers that live inside the heap region itself).  *)
(*                                                                         *)
(* Memory is modelled word by word.  A machine word holds one pointer or   *)
(* one size_t; arithmetic on words is modulo 2^WordBits, as size_t and     *)
(* pointer arithmetic are modulo 2^64 in the build.  struct Header is four *)
(* words (prev, next, size, flags+padding), so sizeof(struct Header) is    *)
(* HeaderSize = 4 words, as 32 bytes are 4 words of 8 bytes in the source. *)
(* Sizes and addresses are counted in words.  MIN_ALLOC is scaled down     *)
(* from 65536 bytes to 16 words (four headers) to keep the heap small.     *)
(***************************************************************************)
EXTENDS Integers, FiniteSets, Sequences, TLC

\* ----------------------------------------------------------------- bounds
WordBits == 7                 \* width of size_t / intptr_t / a pointer
MaxHeap == 32                 \* the larger of the two heap sizes tried
MaxOps == 6                   \* calls made by the target program
MaxBigOps == 2                \* the calls among which the huge requests are made
MaxStdin == 2                 \* characters waiting on standard input at startup
MaxExitRetries == 2           \* times the exit system call is let return

\* ------------------------------------------------------ program constants
MIN_ALLOC == 16               \* malloc.c:30 (scaled)
ALLOCATED == 1                \* malloc.c:33
HeaderSize == 4               \* sizeof(struct Header), malloc.c:36-40
PREV == 0                     \* offset of Header.prev
NEXT == 1                     \* offset of Header.next
SIZE == 2                     \* offset of Header.size
FLAGS == 3                    \* offset of Header.flags
ENOMEM == 12                  \* errno value set at malloc.c:185, EasySandbox.c:92
HeapBase == 32                \* the address mmap returned, EasySandbox.c:200
SmallHeap == 8                \* a heap smaller than MIN_ALLOC (EASYSANDBOX_HEAPSIZE)
NULL == 0
MMAP_FAILED == 123            \* EasySandbox.c:57
DLOPEN_FAILED == 120          \* EasySandbox.c:54
SECCOMP_FAILED == 121         \* EasySandbox.c:55
EXIT_FAILED == 122            \* EasySandbox.c:56
O_ACCMODE == 3                \* the access-mode bits of the descriptor flags
O_NONBLOCK == 4               \* EasySandbox.c:140 (scaled)
EOF == 0 - 1                  \* EasySandbox.c:142
LibcStartMain == 1            \* the address dlsym finds, EasySandbox.c:212

Mod == 2 ^ WordBits
Word == 0 .. (Mod - 1)
\* unsigned wrap-around of size_t / pointer arithmetic
W(x) == x % Mod
\* the value of a word read as intptr_t
Signed(x) == IF x >= Mod \div 2 THEN x - Mod ELSE x
\* (void *) -1
SbrkFailed == Mod - 1

VARIABLES
  mem,         \* the heap region, word by word: [address -> Word]
  s_head,      \* malloc.c:43
  s_tail,      \* malloc.c:43
  s_heap,      \* EasySandbox.c:70
  s_heapsize,  \* EasySandbox.c:71
  s_brk,       \* EasySandbox.c:72
  errno,       \* the C library's errno
  status,      \* "running", "fault" (an access outside the region), "hang"
  live,        \* the pointers the program holds: returned and not yet freed
  last,        \* the call that was just made, its arguments and its result
  sbrk_total,  \* sum of the increments of all successful sbrk calls
  misused,     \* the program has passed free/realloc a pointer it does not hold
  nops,        \* number of calls made
  scen,        \* how far scenario B (free X, free Z, free Y) has got
  boot         \* the process from __libc_start_main on: position, locals, log

vars == <<mem, s_head, s_tail, s_heap, s_heapsize, s_brk, errno, status, live,
          last, sbrk_total, misused, nops, scen, boot>>

\* addresses of the region mmap reserved
Region == s_heap .. (s_heap + s_heapsize - 1)
Mapped(a) == a \in Region
MemDomain == HeapBase .. (HeapBase + MaxHeap - 1)

(***************************************************************************)
(* The allocator's code runs on a machine record m: the globals, the       *)
(* memory, the return value of the function that ran last (ret), whether   *)
(* the diagnostic of free was printed (diag), and st.  st becomes "fault"  *)
(* when the code reads or writes a word outside the mapped region (a null  *)
(* header, an address past the region): behaviour is undefined from there  *)
(* on (SIGSEGV in the build, or silent damage to foreign memory), so the   *)
(* process is taken out of the model in the absorbing status "fault".      *)
(***************************************************************************)
Machine ==
  [mem |-> mem, head |-> s_head, tail |-> s_tail, brk |-> s_brk,
   errno |-> errno, st |-> "running", adv |-> sbrk_total, ret |-> 0,
   diag |-> FALSE]

Fault(m) == [m EXCEPT !.st = IF @ = "running" THEN "fault" ELSE @]
Hang(m) == [m EXCEPT !.st = IF @ = "running" THEN "hang" ELSE @]

\* Sequencing: the machine state e (one statement's result) is computed once
\* and handed to the statements that follow, F.
Then(e, F(_)) == CHOOSE r \in {F(x) : x \in {e}} : TRUE

\* a read of the word at a (the value), and the check that goes with it
LD(m, a) == IF Mapped(W(a)) THEN m.mem[W(a)] ELSE 0
Touch(m, a) == IF Mapped(W(a)) THEN m ELSE Fault(m)
\* a write of v to the word at a
ST(m, a, v) ==
  IF m.st # "running" THEN m
  ELSE IF Mapped(W(a)) THEN [m EXCEPT !.mem[W(a)] = v]
  ELSE Fault(m)
SetRet(m, v) == [m EXCEPT !.ret = v]
SetTail(m, v) == [m EXCEPT !.tail = v]

\* malloc.c:48-54
round_to_multiple(n, multiple) ==
  IF n % multiple # 0 THEN W(n + (multiple - (n % multiple))) ELSE n

\* malloc.c:59-62 (the caller checks the read with Touch)
is_allocated(m, block) == (LD(m, block + FLAGS) % 2) # 0

\* sbrk with the break moved before the capacity check has passed
sbrk_moves_on_failure(m, incr) ==
  LET brk0 == IF m.brk = NULL THEN s_heap ELSE m.brk
      used == Signed(W(brk0 - s_heap))
      remaining == Signed(W(s_heapsize - used))
  IN  IF remaining < Signed(incr)
      THEN [m EXCEPT !.brk = W(brk0 + incr), !.errno = ENOMEM,
                     !.ret = SbrkFailed]
      ELSE [m EXCEPT !.brk = W(brk0 + incr), !.ret = brk0,
                     !.adv = @ + Signed(incr)]

\* EasySandbox.c:79-98; incr is the word passed, read as intptr_t
sbrk(m, incr) ==
  LET brk0 == IF m.brk = NULL THEN s_heap ELSE m.brk
      used == Signed(W(brk0 - s_heap))
      remaining == Signed(W(s_heapsize - used))
  IN  IF remaining < Signed(incr)
      THEN [m EXCEPT !.brk = brk0, !.errno = ENOMEM, !.ret = SbrkFailed]
      ELSE [m EXCEPT !.brk = W(brk0 + incr), !.ret = brk0,
                     !.adv = @ + Signed(incr)]

\* malloc.c:84-97: the new block is appended to the list
append_block(m, block, bs) ==
  Then(ST(m, block + NEXT, 0), LAMBDA m2 :
  Then(IF m2.head = NULL
       THEN ST([m2 EXCEPT !.head = block, !.tail = block], block + PREV, 0)
       ELSE Then(ST(m2, m2.tail + NEXT, block), LAMBDA m2a :
                 SetTail(ST(m2a, block + PREV, m2.tail), block)),
       LAMBDA m3 :
  Then(ST(m3, block + SIZE, bs), LAMBDA m4 :
  SetRet(ST(m4, block + FLAGS, 0), block))))

\* malloc.c:69-100
alloc_block(m, block_size) ==
  LET bs == IF block_size < MIN_ALLOC THEN MIN_ALLOC ELSE block_size
  IN  Then(sbrk(m, bs), LAMBDA m1 :
        IF m1.ret = SbrkFailed THEN SetRet(m1, NULL)
        ELSE append_block(m1, m1.ret, bs))

\* malloc.c:117-136: the block is cut in two, excess taking what is left over
graft_excess(m, block, required_block_size, left_over) ==
  LET excess == W(block + required_block_size)
  IN  Then(ST(m, block + SIZE, required_block_size), LAMBDA m1 :
      Then(ST(m1, excess + SIZE, left_over), LAMBDA m2 :
      Then(ST(m2, excess + FLAGS, 0), LAMBDA m3 :
      Then(ST(Touch(m3, block + NEXT), excess + NEXT, LD(m3, block + NEXT)),
           LAMBDA m4 :
      Then(ST(m4, excess + PREV, block), LAMBDA m5 :
      Then(IF LD(m5, block + NEXT) # NULL
           THEN ST(m5, LD(m5, block + NEXT) + PREV, excess)
           ELSE SetTail(m5, excess), LAMBDA m6 :
      ST(m6, block + NEXT, excess)))))))

\* malloc.c:106-137
split_block_if_necessary(m, block, required_block_size) ==
  LET left_over == W(LD(m, block + SIZE) - required_block_size)
  IN  IF ~Mapped(W(block + SIZE)) THEN Fault(m)
      ELSE IF left_over <= HeaderSize THEN m
      ELSE graft_excess(m, block, required_block_size, left_over)

\* malloc.c:149-159: block absorbs its successor nxt
absorb_successor(m, block, nxt) ==
  Then(ST(Touch(m, nxt + SIZE), block + SIZE,
          W(LD(m, block + SIZE) + LD(m, nxt + SIZE))), LAMBDA m1 :
  Then(Touch(m1, LD(m1, block + NEXT) + NEXT), LAMBDA m2 :
  Then(IF LD(m2, LD(m2, block + NEXT) + NEXT) # NULL
       THEN ST(m2, LD(m2, block + NEXT) + PREV, block)
       ELSE SetTail(m2, block), LAMBDA m3 :
  ST(Touch(m3, LD(m3, block + NEXT) + NEXT), block + NEXT,
     LD(m3, LD(m3, block + NEXT) + NEXT)))))

\* malloc.c:142-160
coalesce_if_necessary(m, block) ==
  IF m.st # "running" THEN m
  ELSE IF ~Mapped(W(block + FLAGS)) THEN Fault(m)
  ELSE IF is_allocated(m, block) THEN m
  ELSE IF ~Mapped(W(block + NEXT)) THEN Fault(m)
  ELSE IF LD(m, block + NEXT) = NULL THEN m
  ELSE IF ~Mapped(W(LD(m, block + NEXT) + FLAGS)) THEN Fault(m)
  ELSE IF is_allocated(m, LD(m, block + NEXT)) THEN m
  ELSE absorb_successor(m, block, LD(m, block + NEXT))

\* malloc.c:173-178: the search of the list for the first free block of at
\* least req words; seen holds the blocks already visited, and meeting one
\* again means the loop never ends
RECURSIVE search(_, _, _, _)
search(m, block, req, seen) ==
  IF block = NULL THEN SetRet(m, NULL)
  ELSE IF block \in seen THEN Hang(m)
  ELSE IF ~Mapped(W(block + SIZE)) THEN Fault(m)
  ELSE IF LD(m, block + SIZE) >= req /\ ~Mapped(W(block + FLAGS)) THEN Fault(m)
  ELSE IF LD(m, block + SIZE) >= req /\ ~is_allocated(m, block)
       THEN SetRet(m, block)
  ELSE IF ~Mapped(W(block + NEXT)) THEN Fault(m)
  ELSE search(m, LD(m, block + NEXT), req, seen \cup {block})

\* malloc.c:190-197: the block found is split, marked and handed out
take_block(m, block, required_block_size) ==
  Then(split_block_if_necessary(m, block, required_block_size), LAMBDA m3 :
  Then(Touch(m3, block + FLAGS), LAMBDA m4 :
  SetRet(ST(m4, block + FLAGS,
            IF LD(m4, block + FLAGS) % 2 = 0
            THEN LD(m4, block + FLAGS) + ALLOCATED
            ELSE LD(m4, block + FLAGS)),
         W(block + HeaderSize))))

\* malloc.c:165-198
malloc(m, size) ==
  LET required_block_size ==
        round_to_multiple(W(size + HeaderSize), HeaderSize)
  IN  Then(search(m, m.head, required_block_size, {}), LAMBDA m1 :
      Then(IF m1.st = "running" /\ m1.ret = NULL
           THEN alloc_block(m1, required_block_size)
           ELSE m1, LAMBDA m2 :
      IF m2.st # "running" THEN m2
      ELSE IF m2.ret = NULL THEN SetRet([m2 EXCEPT !.errno = ENOMEM], NULL)
      ELSE take_block(m2, m2.ret, required_block_size)))

\* malloc.c:220-225: the block is marked free and merged with its neighbours
release_block(m, block) ==
  Then(ST(m, block + FLAGS, LD(m, block + FLAGS) - ALLOCATED), LAMBDA m1 :
  Then(coalesce_if_necessary(m1, block), LAMBDA m2 :
  IF m2.st # "running" THEN m2
  ELSE IF ~Mapped(W(block + PREV)) THEN Fault(m2)
  ELSE coalesce_if_necessary(m2, LD(m2, block + PREV))))

\* free without the test of the ALLOCATED flag (malloc.c:215-218 left out)
free_unchecked(m, p) ==
  IF p = NULL THEN m
  ELSE
    LET block == W(p - HeaderSize)
    IN  IF ~Mapped(W(block + FLAGS)) THEN Fault(m)
        ELSE
          Then(ST(m, block + FLAGS,
                  LD(m, block + FLAGS) - (LD(m, block + FLAGS) % 2)),
               LAMBDA m1 :
          Then(coalesce_if_necessary(m1, block), LAMBDA m2 :
          IF m2.st # "running" THEN m2
          ELSE IF ~Mapped(W(block + PREV)) THEN Fault(m2)
          ELSE coalesce_if_necessary(m2, LD(m2, block + PREV))))

\* malloc.c:203-226
free(m, p) ==
  IF p = NULL THEN m
  ELSE
    LET block == W(p - HeaderSize)
    IN  IF ~Mapped(W(block + FLAGS)) THEN Fault(m)
        ELSE IF ~is_allocated(m, block) THEN [m EXCEPT !.diag = TRUE]
        ELSE release_block(m, block)

\* memset(buf, 0, n), malloc.c:237
memset0(m, buf, n) ==
  LET dst == {W(buf + i) : i \in 0 .. (n - 1)}
  IN  IF m.st # "running" THEN m
      ELSE IF ~(dst \subseteq Region) THEN Fault(m)
      ELSE [m EXCEPT !.mem = [a \in DOMAIN m.mem |-> IF a \in dst THEN 0 ELSE m.mem[a]]]

\* memcpy(buf, ptr, n), malloc.c:278; copying between overlapping buffers
\* is undefined
memcpy(m, buf, ptr, n) ==
  LET dst == {W(buf + i) : i \in 0 .. (n - 1)}
      src == {W(ptr + i) : i \in 0 .. (n - 1)}
  IN  IF m.st # "running" THEN m
      ELSE IF ~(dst \subseteq Region /\ src \subseteq Region) THEN Fault(m)
      ELSE IF dst \cap src # {} THEN Fault(m)
      ELSE [m EXCEPT !.mem = [a \in DOMAIN m.mem |->
                                IF a \in dst THEN m.mem[W(ptr + W(a - buf))]
                                ELSE m.mem[a]]]

\* malloc.c:231-240
calloc(m, nmemb, size) ==
  Then(malloc(m, W(nmemb * size)), LAMBDA m1 :
    IF m1.st = "running" /\ m1.ret # NULL
    THEN SetRet(memset0(m1, m1.ret, W(nmemb * size)), m1.ret)
    ELSE m1)

\* malloc.c:272-284: the old contents are copied and the old buffer freed
move_buffer(m, ptr, buf, size) ==
  LET block == W(ptr - HeaderSize)
      old == W(LD(m, block + SIZE) - HeaderSize)
      to_copy == IF old > size THEN size ELSE old
  IN  IF ~Mapped(W(block + SIZE)) THEN Fault(m)
      ELSE Then(memcpy(m, buf, ptr, to_copy), LAMBDA m3 :
           Then(IF m3.st = "running" THEN free(m3, ptr) ELSE m3, LAMBDA m4 :
           SetRet(m4, buf)))

\* realloc that returns null for size 0 without freeing the buffer
realloc_keeps_on_zero(m, ptr, size) ==
  IF ptr = NULL THEN malloc(m, size)
  ELSE IF size = 0 THEN SetRet(m, NULL)
  ELSE Then(malloc(m, size), LAMBDA m1 :
         IF m1.st # "running" \/ m1.ret = NULL THEN m1
         ELSE move_buffer(m1, ptr, m1.ret, size))

\* realloc that gives the old buffer up when the new one cannot be had
realloc_frees_on_failure(m, ptr, size) ==
  IF ptr = NULL THEN malloc(m, size)
  ELSE IF size = 0 THEN SetRet(free(m, ptr), NULL)
  ELSE Then(malloc(m, size), LAMBDA m1 :
         IF m1.st # "running" THEN m1
         ELSE IF m1.ret = NULL THEN SetRet(free(m1, ptr), NULL)
         ELSE move_buffer(m1, ptr, m1.ret, size))

\* malloc.c:245-285
realloc(m, ptr, size) ==
  IF ptr = NULL THEN malloc(m, size)
  ELSE IF size = 0 THEN Then(free(m, ptr), LAMBDA m1 : SetRet(m1, NULL))
  ELSE Then(malloc(m, size), LAMBDA m1 :
         IF m1.st # "running" \/ m1.ret = NULL THEN m1
         ELSE move_buffer(m1, ptr, m1.ret, size))

(***************************************************************************)
(* The target program: it calls malloc, calloc, realloc and free, one call *)
(* at a time (the allocator is single-threaded), and writes to the buffers *)
(* it holds.                                                               *)
(***************************************************************************)
\* request sizes tried: two small ones and one of exactly MIN_ALLOC with its
\* header; and, in the first MaxBigOps calls, three of the largest size_t values
SmallSizes == {0, 1, MIN_ALLOC - HeaderSize}
BigSizes == {Mod - 2 * HeaderSize, Mod - HeaderSize, Mod - 1}
Sizes == SmallSizes \cup (IF nops < MaxBigOps THEN BigSizes ELSE {})
HeapSizes == {SmallHeap, MaxHeap}
Call(op, p, n) == [op |-> op, p |-> p, n |-> n, ret |-> 0, diag |-> FALSE]

\* Scenario B is followed from call to call: a free of X whose successors Y
\* and Z are allocated and adjacent starts it (k = 1), the free of Z
\* continues it (k = 2), the free of Y ends it (k = 3); sum is the three
\* sizes as they were before the first free.  Any other call ends it.
NoScen == [k |-> 0, x |-> 0, y |-> 0, z |-> 0, sum |-> 0]

\* ---------------------------------------------------------------- startup
\* one entry of the log of what the process has done so far
Ev(e, a) == [ev |-> e, arg |-> a]
Logged(b, e, a) == [b EXCEPT !.log = Append(@, Ev(e, a))]
\* the characters of the model's standard input, and what waits on it
Chars == {65, 255}
RECURSIVE SeqsUpTo(_)
SeqsUpTo(k) ==
  IF k = 0 THEN {<<>>}
  ELSE SeqsUpTo(k - 1) \cup
       {Append(q, ch) : q \in {r \in SeqsUpTo(k - 1) : Len(r) = k - 1},
                        ch \in Chars}
\* descriptor flags of fd 0 when the process starts: read-only or
\* read-write, blocking or not
FdFlags == {0, 2, O_NONBLOCK, 2 + O_NONBLOCK}
\* stdin_flags | O_NONBLOCK; -1 has every bit set
OrNonblock(f) ==
  IF f < 0 THEN f
  ELSE IF (f \div O_NONBLOCK) % 2 = 1 THEN f ELSE f + O_NONBLOCK
\* fcntl(0, F_GETFL, 0): the flags, or -1 when fd 0 is not open
F_GETFL(b) == IF b.fd_open THEN b.fd_flags ELSE 0 - 1
\* fcntl(0, F_SETFL, arg): the access mode stays, O_NONBLOCK is taken from
\* arg; nothing happens when fd 0 is not open
F_SETFL(b, arg) ==
  IF ~b.fd_open THEN b
  ELSE [b EXCEPT !.fd_flags =
          (@ % (O_ACCMODE + 1))
          + (IF ((arg % (2 * O_NONBLOCK)) \div O_NONBLOCK) = 1
             THEN O_NONBLOCK ELSE 0)]
\* fgetc(stdin) on the non-blocking descriptor: the next character, or EOF
\* when none waits (end of file, no data yet, or fd 0 not open)
fgetc(b) ==
  IF b.fd_open /\ b.stdin # <<>>
  THEN [b EXCEPT !.c = Head(b.stdin), !.stdin = Tail(b.stdin)]
  ELSE [b EXCEPT !.c = EOF]
\* ungetc(c, stdin)
ungetc(b, ch) == [b EXCEPT !.stdin = <<ch>> \o @]
\* _exit(code)
_exit(b, code) ==
  [Logged(b, "_exit", code) EXCEPT !.pc = "exited", !.exit_code = code]

\* the process when the dynamic loader enters __libc_start_main
AtStart(fl, inp, open) ==
  [pc |-> "start", log |-> <<>>, fd_open |-> open, fd_flags |-> fl,
   stdin |-> inp, stdin_flags |-> 0, c |-> 0, n |-> 0, seccomp |-> FALSE,
   exit_code |-> EOF, real_libc_start_main |-> NULL, retries |-> 0,
   fd_flags0 |-> fl, stdin0 |-> inp]
\* the process when the target's main runs and calls the allocator
InMain ==
  [AtStart(0, <<>>, TRUE) EXCEPT
     !.pc = "real_main", !.seccomp = TRUE, !.c = EOF,
     !.real_libc_start_main = LibcStartMain,
     !.log = <<Ev("mmap", 0), Ev("dlopen", 0), Ev("dlsym", 0),
               Ev("real_libc_start_main", 0),
               Ev("fprintf_stdout", 0), Ev("fflush_stdout", 0),
               Ev("fprintf_stderr", 0), Ev("fflush_stderr", 0),
               Ev("F_GETFL", 0), Ev("F_SETFL", O_NONBLOCK), Ev("fgetc", EOF),
               Ev("F_SETFL", 0), Ev("prctl", 0), Ev("real_init", 0),
               Ev("real_main", 0)>>]

Init ==
  /\ s_heap = HeapBase
  /\ s_heapsize \in HeapSizes
  /\ mem = [a \in MemDomain |-> 0]
  /\ s_head = NULL
  /\ s_tail = NULL
  /\ s_brk = NULL
  /\ errno = 0
  /\ status = "running"
  /\ live = {}
  /\ last = Call("none", 0, 0)
  /\ sbrk_total = 0
  /\ misused = FALSE
  /\ nops = 0
  /\ scen = NoScen
  /\ boot = InMain

\* the globals after a call that ran the code to machine state m
Commit(m, call, lv) ==
  /\ nops' = nops + 1
  /\ status' = m.st
  /\ last' = [call EXCEPT !.ret = IF m.st = "running" THEN m.ret ELSE 0,
                          !.diag = m.st = "running" /\ m.diag]
  /\ IF m.st = "running"
     THEN /\ mem' = m.mem
          /\ s_head' = m.head
          /\ s_tail' = m.tail
          /\ s_brk' = m.brk
          /\ errno' = m.errno
          /\ sbrk_total' = m.adv
          /\ live' = lv
     ELSE UNCHANGED <<mem, s_head, s_tail, s_brk, errno, sbrk_total, live>>
  /\ UNCHANGED <<s_heap, s_heapsize, boot>>

CanCall == status = "running" /\ ~misused /\ nops < MaxOps

\* the block header a pointer handed out by malloc belongs to
HeaderOf(p) == W(p - HeaderSize)
Word0(a) == IF Mapped(W(a)) THEN mem[W(a)] ELSE 0
Allocd(b) == Mapped(W(b + FLAGS)) /\ Word0(b + FLAGS) % 2 = 1

ThreeAllocated(x) ==
  LET y == Word0(x + NEXT)
      z == Word0(y + NEXT)
  IN  /\ Allocd(x) /\ y # NULL /\ Allocd(y) /\ z # NULL /\ Allocd(z)
      /\ y = x + Word0(x + SIZE)
      /\ z = y + Word0(y + SIZE)
ScenAfterFree(p) ==
  LET x == HeaderOf(p)
      y == Word0(x + NEXT)
      z == Word0(y + NEXT)
  IN  IF p # NULL /\ scen.k = 1 /\ x = scen.z THEN [scen EXCEPT !.k = 2]
      ELSE IF p # NULL /\ scen.k = 2 /\ x = scen.y THEN [scen EXCEPT !.k = 3]
      ELSE IF p # NULL /\ ThreeAllocated(x)
           THEN [k |-> 1, x |-> x, y |-> y, z |-> z,
                 sum |-> Word0(x + SIZE) + Word0(y + SIZE) + Word0(z + SIZE)]
      ELSE NoScen

MallocCall(n) ==
  /\ CanCall
  /\ \E m0 \in {Machine} : \E m \in {malloc(m0, n)} :
         /\ Commit(m, Call("malloc", 0, n),
                   IF m.ret # NULL THEN live \cup {m.ret} ELSE live)
         /\ scen' = NoScen
         /\ UNCHANGED misused

CallocCall(nmemb, size) ==
  /\ CanCall
  /\ \E m0 \in {Machine} : \E m \in {calloc(m0, nmemb, size)} :
         /\ Commit(m, Call("calloc", nmemb, size),
                   IF m.ret # NULL THEN live \cup {m.ret} ELSE live)
         /\ scen' = NoScen
         /\ UNCHANGED misused

FreeCall(p) ==
  /\ CanCall
  /\ \E m0 \in {Machine} : \E m \in {free(m0, p)} :
         /\ Commit(m, Call("free", p, 0), live \ {p})
         /\ scen' = ScenAfterFree(p)
         /\ misused' = (p # NULL /\ p \notin live)

ReallocCall(p, n) ==
  /\ CanCall
  /\ \E m0 \in {Machine} : \E m \in {realloc(m0, p, n)} :
         /\ Commit(m, Call("realloc", p, n),
                   IF m.ret # NULL THEN (live \ {p}) \cup {m.ret}
                   ELSE IF n = 0 THEN live \ {p}
                   ELSE live)
         /\ scen' = NoScen
         /\ UNCHANGED misused

\* The program writes the word v into the buffer it has just been given, at
\* one of the words it asked for.
StoreVals == {ALLOCATED}
StoreOffsets == {0, FLAGS, HeaderSize + FLAGS}
Store(i, v) ==
  /\ CanCall
  /\ last.op \in {"malloc", "calloc", "realloc"}
  /\ last.ret # NULL
  /\ last.ret \in live
  /\ i < last.n
  /\ Mapped(W(last.ret + i))
  /\ mem' = [mem EXCEPT ![W(last.ret + i)] = v]
  /\ last' = Call("store", W(last.ret + i), v)
  /\ nops' = nops + 1
  /\ UNCHANGED <<s_head, s_tail, s_heap, s_heapsize, s_brk, errno, status,
                 live, sbrk_total, misused, scen, boot>>

\* The program calls sbrk itself (EasySandbox.c:79 replaces the C library's).
Incrs == {0, 1, HeaderSize, MIN_ALLOC, Mod - 1, Mod - HeaderSize}
SbrkCall(incr) ==
  /\ CanCall
  /\ \E m0 \in {Machine} : \E m \in {sbrk(m0, incr)} :
         Commit(m, Call("sbrk", 0, incr), live)
  /\ UNCHANGED <<misused, scen>>

CallocArgs == {<<1, 1>>, <<2, Mod \div 2>>}
\* pointers the program does not hold: every header-aligned address after
\* the first header slot, up to the end of the region
Strays ==
  {a \in (s_heap + HeaderSize) .. (s_heap + s_heapsize) :
     (a - s_heap) % HeaderSize = 0 /\ a \notin live}

Next ==
  \/ \E n \in Sizes : MallocCall(n)
  \/ \E c \in CallocArgs : CallocCall(c[1], c[2])
  \/ \E p \in live \cup {NULL} : FreeCall(p)
  \/ \E p \in live \cup {NULL}, n \in Sizes : ReallocCall(p, n)

Spec == Init /\ [][Next]_vars

\* the program also writes to its buffers and frees pointers it does not hold
NextStray ==
  \/ Next
  \/ \E i \in StoreOffsets, v \in StoreVals : Store(i, v)
  \/ \E p \in Strays : FreeCall(p)

SpecStray == Init /\ [][NextStray]_vars

\* the program only calls sbrk
NextSbrk == \E incr \in Incrs : SbrkCall(incr)

SpecSbrk == Init /\ [][NextSbrk]_vars

(***************************************************************************)
(* Startup (EasySandbox.c:117-217).  The dynamic loader enters the         *)
(* replacement __libc_start_main, which reserves the heap, looks up the    *)
(* C library's __libc_start_main and delegates to it with wrapper_init and *)
(* wrapper_main in place of the target's init and main; the C library      *)
(* calls the init function it was given and then the main function.  What  *)
(* the system answers (mmap, dlopen, dlsym, prctl, the exit system call)   *)
(* is chosen freely.  A call through a null function pointer is undefined: *)
(* the process leaves the model at pc "fault".                             *)
(***************************************************************************)
AllocVars == <<mem, s_head, s_tail, s_brk, errno, status, live, last,
               sbrk_total, misused, nops, scen>>
ExitCodes == {0, 1, EXIT_FAILED}

InitStart ==
  /\ s_heap = NULL
  /\ s_heapsize = 0
  /\ mem = [a \in MemDomain |-> 0]
  /\ s_head = NULL
  /\ s_tail = NULL
  /\ s_brk = NULL
  /\ errno = 0
  /\ status = "running"
  /\ live = {}
  /\ last = Call("none", 0, 0)
  /\ sbrk_total = 0
  /\ misused = FALSE
  /\ nops = 0
  /\ scen = NoScen
  /\ \E fl \in FdFlags, inp \in SeqsUpTo(MaxStdin), open \in BOOLEAN :
       boot = AtStart(fl, inp, open)

\* a step of the startup code that leaves the allocator's globals alone
At(pc0) == boot.pc = pc0 /\ UNCHANGED <<AllocVars, s_heap, s_heapsize>>

\* EasySandbox.c:192-203
start_mmap ==
  /\ boot.pc = "start"
  /\ UNCHANGED AllocVars
  /\ \/ /\ boot' = _exit(Logged(boot, "mmap", EOF), MMAP_FAILED)
        /\ UNCHANGED <<s_heap, s_heapsize>>
     \/ /\ boot' = [Logged(boot, "mmap", 0) EXCEPT !.pc = "dlopen"]
        /\ s_heap' = HeapBase
        /\ s_heapsize' \in HeapSizes

\* EasySandbox.c:205-209
start_dlopen ==
  /\ At("dlopen")
  /\ \/ boot' = _exit(Logged(boot, "dlopen", NULL), DLOPEN_FAILED)
     \/ boot' = [Logged(boot, "dlopen", 1) EXCEPT !.pc = "dlsym"]

\* EasySandbox.c:211-212: the address found, or null, is stored unexamined
start_dlsym ==
  /\ At("dlsym")
  /\ \E addr \in {NULL, LibcStartMain} :
       boot' = [Logged(boot, "dlsym", addr) EXCEPT
                  !.pc = "delegate", !.real_libc_start_main = addr]

\* EasySandbox.c:216: the call through real_libc_start_main; the C library
\* then calls wrapper_init
start_delegate ==
  /\ At("delegate")
  /\ boot' = [Logged(boot, "real_libc_start_main", boot.real_libc_start_main)
                EXCEPT !.pc = IF boot.real_libc_start_main = NULL
                              THEN "fault" ELSE "wrapper_init"]

\* EasySandbox.c:130-131
wrapper_init_stdout ==
  /\ At("wrapper_init")
  /\ boot' = [Logged(Logged(boot, "fprintf_stdout", 0), "fflush_stdout", 0)
                EXCEPT !.pc = "prime_stderr"]

\* EasySandbox.c:132-133
wrapper_init_stderr ==
  /\ At("prime_stderr")
  /\ boot' = [Logged(Logged(boot, "fprintf_stderr", 0), "fflush_stderr", 0)
                EXCEPT !.pc = "getfl"]

\* EasySandbox.c:139
wrapper_init_getfl ==
  /\ At("getfl")
  /\ boot' = [Logged(boot, "F_GETFL", F_GETFL(boot)) EXCEPT
                !.stdin_flags = F_GETFL(boot), !.pc = "setfl"]

\* EasySandbox.c:140
wrapper_init_nonblock ==
  /\ At("setfl")
  /\ boot' = [F_SETFL(Logged(boot, "F_SETFL", OrNonblock(boot.stdin_flags)),
                      OrNonblock(boot.stdin_flags))
                EXCEPT !.pc = "fgetc"]

\* EasySandbox.c:141
wrapper_init_fgetc ==
  /\ At("fgetc")
  /\ \E b \in {fgetc(boot)} :
       boot' = [Logged(b, "fgetc", b.c) EXCEPT !.pc = "ungetc"]

\* EasySandbox.c:142-145
wrapper_init_ungetc ==
  /\ At("ungetc")
  /\ boot' = [(IF boot.c # EOF
               THEN ungetc(Logged(boot, "ungetc", boot.c), boot.c)
               ELSE boot)
                EXCEPT !.pc = "restore"]

\* wrapper_init leaving fd 0 non-blocking
wrapper_init_keep_nonblock ==
  /\ At("restore")
  /\ boot' = [F_SETFL(Logged(boot, "F_SETFL", OrNonblock(boot.stdin_flags)),
                      OrNonblock(boot.stdin_flags))
                EXCEPT !.pc = "prctl"]

\* EasySandbox.c:146
wrapper_init_restore ==
  /\ At("restore")
  /\ boot' = [F_SETFL(Logged(boot, "F_SETFL", boot.stdin_flags),
                      boot.stdin_flags)
                EXCEPT !.pc = "prctl"]

\* wrapper_init with the block at EasySandbox.c:148-153 compiled out
wrapper_init_no_prctl ==
  /\ At("prctl")
  /\ boot' = [boot EXCEPT !.pc = "real_init"]

\* wrapper_init going on after prctl has failed
wrapper_init_prctl_unchecked ==
  /\ At("prctl")
  /\ \/ boot' = [Logged(boot, "prctl", EOF) EXCEPT !.pc = "real_init"]
     \/ boot' = [Logged(boot, "prctl", 0) EXCEPT
                   !.pc = "real_init", !.seccomp = TRUE]

\* EasySandbox.c:148-153
wrapper_init_prctl ==
  /\ At("prctl")
  /\ \/ boot' = _exit(Logged(boot, "prctl", EOF), SECCOMP_FAILED)
     \/ boot' = [Logged(boot, "prctl", 0) EXCEPT
                   !.pc = "real_init", !.seccomp = TRUE]

\* EasySandbox.c:156; wrapper_init returns and the C library calls
\* wrapper_main
wrapper_init_real_init ==
  /\ At("real_init")
  /\ boot' = [Logged(boot, "real_init", 0) EXCEPT !.pc = "real_main"]

\* EasySandbox.c:166: the target's main runs and returns n
wrapper_main_real_main ==
  /\ At("real_main")
  /\ \E code \in ExitCodes :
       boot' = [Logged(boot, "real_main", code) EXCEPT
                  !.n = code, !.pc = "exit"]

\* EasySandbox.c:167, 108-109
exit_flush ==
  /\ At("exit")
  /\ boot' = [Logged(Logged(boot, "fflush_stdout", 0), "fflush_stderr", 0)
                EXCEPT !.pc = "SYS_exit"]

\* exit with the system call issued once: when it returns, so does exit, and
\* wrapper_main returns EXIT_FAILED to the C library
exit_once ==
  /\ At("SYS_exit")
  /\ \/ boot' = [Logged(boot, "SYS_exit", boot.n) EXCEPT
                   !.pc = "exited", !.exit_code = boot.n]
     \/ /\ boot.retries < MaxExitRetries
        /\ boot' = [Logged(Logged(boot, "SYS_exit", boot.n),
                           "return", EXIT_FAILED)
                      EXCEPT !.retries = @ + 1, !.pc = "returned"]

\* EasySandbox.c:112-114: the system call ends the process, or returns and
\* is issued again
exit_syscall ==
  /\ At("SYS_exit")
  /\ \/ boot' = [Logged(boot, "SYS_exit", boot.n) EXCEPT
                   !.pc = "exited", !.exit_code = boot.n]
     \/ /\ boot.retries < MaxExitRetries
        /\ boot' = [Logged(boot, "SYS_exit", boot.n) EXCEPT
                      !.retries = @ + 1]

NextStart ==
  \/ start_mmap
  \/ start_dlopen
  \/ start_dlsym
  \/ start_delegate
  \/ wrapper_init_stdout
  \/ wrapper_init_stderr
  \/ wrapper_init_getfl
  \/ wrapper_init_nonblock
  \/ wrapper_init_fgetc
  \/ wrapper_init_ungetc
  \/ wrapper_init_restore
  \/ wrapper_init_prctl
  \/ wrapper_init_real_init
  \/ wrapper_main_real_main
  \/ exit_flush
  \/ exit_syscall

SpecStart == InitStart /\ [][NextStart]_vars

(***************************************************************************)
(* The block list as the allocator sees it: the headers reached from       *)
(* s_head through next, up to null, a header outside the region or a       *)
(* header met before.                                                      *)
(***************************************************************************)
Fld(b, f) == IF Mapped(W(b + f)) THEN mem[W(b + f)] ELSE 0
InHeap(b) == \A f \in {PREV, NEXT, SIZE, FLAGS} : Mapped(W(b + f))
IsFree(b) == Fld(b, FLAGS) % 2 = 0
Range(q) == {q[i] : i \in 1 .. Len(q)}

RECURSIVE Walk(_, _)
Walk(b, acc) ==
  IF b = NULL \/ ~InHeap(b) \/ b \in Range(acc) THEN acc
  ELSE Walk(Fld(b, NEXT), Append(acc, b))
Blocks == Walk(s_head, <<>>)

RECURSIVE SumSizes(_)
SumSizes(q) == IF q = <<>> THEN 0 ELSE Fld(Head(q), SIZE) + SumSizes(Tail(q))

Running == status = "running"
\* the break as an offset into the region; s_brk is null until sbrk first runs
BreakOffset == IF s_brk = NULL THEN 0 ELSE Signed(W(s_brk - s_heap))

\* two blocks of the list, the second starting where the first ends, both free
AdjacentFree ==
  \E i, j \in 1 .. Len(Blocks) :
    /\ i # j
    /\ W(Blocks[i] + Fld(Blocks[i], SIZE)) = Blocks[j]
    /\ IsFree(Blocks[i])
    /\ IsFree(Blocks[j])

\* C1: after a free() of a pointer the program holds has returned (every call
\* so far having been given valid pointers), no two address-adjacent blocks of
\* the list are both free.
C1_NoAdjacentFreeAfterFree ==
  (Running /\ ~misused /\ last.op = "free" /\ last.p # NULL) => ~AdjacentFree

\* C2: between calls, the sizes of the blocks reachable from s_head add up to
\* the number of words sbrk has advanced the break by.
C2_SizesSumToBreak ==
  (Running /\ ~misused) => SumSizes(Blocks) = sbrk_total

WellFormedList ==
  /\ (s_head # NULL => Fld(s_head, PREV) = NULL)
  /\ \A i \in 1 .. Len(Blocks) :
       LET b == Blocks[i]
           n == Fld(b, NEXT)
       IN  IF n # NULL
           THEN /\ InHeap(n)
                /\ Fld(n, PREV) = b
                /\ b + Fld(b, SIZE) = n
           ELSE s_tail = b
  /\ (s_head = NULL => s_tail = NULL)

\* C3: between calls, the headers form a well-formed doubly linked list in
\* strictly ascending address order, ending at s_tail.
C3_WellFormedList ==
  (Running /\ ~misused) => WellFormedList

\* C4: malloc(n) returns null with errno ENOMEM, or a pointer p whose n words
\* [p, p+n) lie inside the block (they end no later than the block does) and
\* below the break.
C4_MallocGivesRoom ==
  (Running /\ last.op = "malloc") =>
     \/ last.ret = NULL /\ errno = ENOMEM
     \/ /\ last.ret # NULL
        /\ InHeap(HeaderOf(last.ret))
        /\ last.ret + last.n <= HeaderOf(last.ret) + Fld(HeaderOf(last.ret), SIZE)
        /\ last.ret + last.n <= s_brk

\* the block size malloc computes for a request of n words (malloc.c:171)
ReqSize(n) == round_to_multiple(W(n + HeaderSize), HeaderSize)
\* the free blocks of the list that can hold a request of n words
Fits(n) == {b \in Range(Blocks) : IsFree(b) /\ Fld(b, SIZE) >= ReqSize(n)}
Lowest(S) == CHOOSE b \in S : \A c \in S : b <= c
FirstPtr == W(s_head + HeaderSize)
Allocates == {"malloc", "calloc", "realloc"}

\* scenario A, third call: after two allocations from the empty heap the
\* first block is freed, and the call returns
ScenarioA_FreeFirst ==
  (nops = 2 /\ Cardinality(live) = 2 /\ FirstPtr \in live
   /\ last'.op = "free" /\ last'.p = FirstPtr)
  => (status' = "running" /\ LD([mem |-> mem'], s_head + FLAGS) % 2 = 0)
\* scenario A, fourth call: an allocation that fits the freed first block is
\* served from it and the break stays where it is
ScenarioA_Reuse ==
  (nops = 3 /\ Running /\ Cardinality(live) = 1 /\ last.op = "free"
   /\ last.p = FirstPtr /\ last'.op = "malloc" /\ status' = "running"
   /\ ReqSize(last'.n) <= Fld(s_head, SIZE))
  => (last'.ret = FirstPtr /\ s_brk' = s_brk)
\* any malloc: the lowest-addressed free block that fits is the one handed
\* out, and the break moves only when none fits
FirstFit ==
  (Running /\ last'.op = "malloc" /\ nops' = nops + 1 /\ status' = "running")
  => IF Fits(last'.n) # {}
     THEN last'.ret = W(Lowest(Fits(last'.n)) + HeaderSize) /\ s_brk' = s_brk
     ELSE last'.ret = NULL \/ sbrk_total' # sbrk_total

\* C5: scenario A (allocate, allocate, free the first, allocate again: the
\* freed block is reused and sbrk is not called), and first fit in general.
C5_FirstFitReuse ==
  [][ScenarioA_FreeFirst /\ ScenarioA_Reuse /\ FirstFit]_vars

\* C6: free(X), free(Z), free(Y) on three adjacent allocated blocks all
\* return and leave one free block at X of the three sizes added up.
C6_ThreeMerge ==
  /\ scen.k >= 1 => Running
  /\ scen.k = 3 =>
       /\ scen.x \in Range(Blocks)
       /\ IsFree(scen.x)
       /\ Fld(scen.x, SIZE) = scen.sum
       /\ scen.y \notin Range(Blocks)
       /\ scen.z \notin Range(Blocks)

\* the allocator's state is the same after the step as before it
HeapUnchanged ==
  /\ mem' = mem
  /\ s_head' = s_head
  /\ s_tail' = s_tail
  /\ BreakOffset' = BreakOffset

BreakInRegion == s_brk = NULL \/ (s_heap <= s_brk /\ s_brk <= s_heap + s_heapsize)
C8_BreakStaysInRegion ==
  [][(last'.op = "sbrk" /\ nops' = nops + 1)
     => /\ BreakInRegion'
        /\ \/ /\ last'.ret = (IF s_brk = NULL THEN s_heap ELSE s_brk)
              /\ s_brk' = W(last'.ret + last'.n)
           \/ /\ last'.ret = SbrkFailed
              /\ errno' = ENOMEM
              /\ BreakOffset' = BreakOffset]_vars

\* p is the payload address of a block of the list that is marked ALLOCATED
Designates(p) == HeaderOf(p) \in Range(Blocks) /\ Allocd(HeaderOf(p))
\* the step is free(p), with p not null
FreeStep == last'.op = "free" /\ nops' = nops + 1 /\ last'.p # NULL
\* the call printed the diagnostic, returned, and changed nothing
DiagnosedNoOp == status' = "running" /\ last'.diag /\ HeapUnchanged

\* C9 as claimed: free(p) on a non-null pointer that does not designate an
\* allocated block prints the diagnostic and changes nothing (looked at only
\* where the block list is intact and accounts for the whole break).
C9_StrayFreeChangesNothing ==
  [][(FreeStep /\ ~Designates(last'.p) /\ WellFormedList
      /\ SumSizes(Blocks) = sbrk_total)
     => DiagnosedNoOp]_vars

\* C9 as amended: free(p) on a non-null pointer whose preceding header word
\* does not have the ALLOCATED flag set prints the diagnostic and changes
\* nothing.
C9_UnflaggedFreeChangesNothing ==
  [][(FreeStep /\ Mapped(W(HeaderOf(last'.p) + FLAGS))
      /\ ~Allocd(HeaderOf(last'.p)))
     => DiagnosedNoOp]_vars
\* free has been called on the pointer of a free block of the list, which
\* the program does not hold, and has printed the diagnostic
C9_Witness ==
  /\ Running /\ last.op = "free" /\ last.p # NULL /\ last.diag /\ misused
  /\ HeaderOf(last.p) \in Range(Blocks) /\ IsFree(HeaderOf(last.p))
  /\ WellFormedList

\* the globals and the result of the step are those of machine state m
SameOutcome(m) ==
  /\ status' = m.st
  /\ m.st = "running" =>
       /\ mem' = m.mem
       /\ s_head' = m.head
       /\ s_tail' = m.tail
       /\ s_brk' = m.brk
       /\ errno' = m.errno
       /\ last'.ret = m.ret

\* C10: realloc(null, n) returns what malloc(n) returns and leaves the heap
\* malloc(n) leaves; realloc(p, 0) with p not null leaves the heap free(p)
\* leaves, and returns null.
C10_ReallocSpecialCases ==
  [][(last'.op = "realloc" /\ nops' = nops + 1)
     => /\ last'.p = NULL =>
             \E m0 \in {Machine} : \E m \in {malloc(m0, last'.n)} :
                SameOutcome(m)
        /\ (last'.p # NULL /\ last'.n = 0) =>
             \E m0 \in {Machine} : \E m \in {free(m0, last'.p)} :
                SameOutcome(SetRet(m, NULL))]_vars
\* realloc(p, 0) has freed a block that was allocated
C10_Witness ==
  /\ Running /\ last.op = "realloc" /\ last.p # NULL /\ last.n = 0
  /\ last.ret = NULL /\ IsFree(HeaderOf(last.p)) /\ ~last.diag
  /\ SumSizes(Blocks) = sbrk_total

\* C15: free(p) of a block the program holds returns, whichever block it
\* is: no header outside the region (the null header) is read on the way.
C15_FreeOfHeldBlockReturns ==
  [][(FreeStep /\ last'.p \in live /\ Designates(last'.p))
     => status' = "running"]_vars

\* the step is realloc(p, n) on a held, allocated block with n > 0
ReallocStep ==
  /\ last'.op = "realloc" /\ nops' = nops + 1
  /\ last'.p # NULL /\ last'.n > 0
  /\ last'.p \in live /\ Designates(last'.p)
\* the number of words realloc copies (malloc.c:273-277)
ToCopy(p, n) ==
  LET old == W(Fld(HeaderOf(p), SIZE) - HeaderSize)
  IN  IF old > n THEN n ELSE old

\* C16: a realloc(p, n) that succeeds returns the address a fresh malloc(n)
\* gives, different from p, holding the first min(old payload, n) words of
\* the old buffer, and leaves the old block not marked allocated.
C16_ReallocMovesBuffer ==
  [][(ReallocStep /\ status' = "running" /\ last'.ret # NULL)
     => /\ last'.ret # last'.p
        /\ \E m0 \in {Machine} : last'.ret = malloc(m0, last'.n).ret
        /\ \A i \in 0 .. (ToCopy(last'.p, last'.n) - 1) :
             /\ Mapped(W(last'.ret + i))
             /\ mem'[W(last'.ret + i)] = mem[W(last'.p + i)]
        /\ mem'[W(HeaderOf(last'.p) + FLAGS)] % 2 = 0]_vars

\* C17: a realloc(p, n) that cannot get the new buffer returns null and
\* leaves the heap as it was, the old block still allocated and held.
C17_FailedReallocKeepsBuffer ==
  [][(ReallocStep /\ status' = "running" /\ last'.ret = NULL)
     => /\ HeapUnchanged
        /\ mem'[W(HeaderOf(last'.p) + FLAGS)] % 2 = 1
        /\ last'.p \in live']_vars
\* realloc has failed on a full heap and the old block is still allocated
C17_Witness ==
  /\ Running /\ last.op = "realloc" /\ last.p # NULL /\ last.n > 0
  /\ last.ret = NULL /\ last.p \in live /\ Allocd(HeaderOf(last.p))
  /\ errno = ENOMEM /\ WellFormedList /\ SumSizes(Blocks) = sbrk_total

\* the words of the buffer at p: from after its header to the end of its block
Payload(p) == p .. (HeaderOf(p) + Fld(HeaderOf(p), SIZE) - 1)
\* the headers the allocator goes to from its globals and from the links of
\* the blocks of the list
LinkedHeaders ==
  (Range(Blocks) \cup {s_tail}
     \cup {Fld(b, PREV) : b \in Range(Blocks)}
     \cup {Fld(b, NEXT) : b \in Range(Blocks)}) \ {NULL}

\* C19: between calls on valid pointers, the buffers the program holds are
\* pairwise disjoint, lie between the start of the region and the break, and
\* hold no header the allocator goes to.
C19_PayloadsDisjoint ==
  (Running /\ ~misused) =>
    /\ \A p, q \in live : p # q => Payload(p) \cap Payload(q) = {}
    /\ \A p \in live : \A a \in Payload(p) : s_heap <= a /\ a < s_brk
    /\ \A p \in live : \A h \in LinkedHeaders :
         (h .. (h + HeaderSize - 1)) \cap Payload(p) = {}

\* C20: no call of malloc (made by the program, or by calloc or realloc)
\* walks the list for ever: the walk from s_head comes to null.
C20_MallocTerminates == status # "hang"

(***************************************************************************)
(* Startup: what the log of the process says.                              *)
(***************************************************************************)
Idx(e) == {i \in 1 .. Len(boot.log) : boot.log[i].ev = e}
Count(e) == Cardinality(Idx(e))
IdxOk(e, a) == {i \in Idx(e) : boot.log[i].arg = a}
TargetRuns == Idx("real_init") \cup Idx("real_main")
EvNames(lo, hi) == [i \in 1 .. (hi - lo + 1) |-> boot.log[lo + i - 1].ev]

\* C11: whenever the target's pre-init hook or entry function has been
\* invoked, the heap was reserved by exactly one mmap and restricted mode was
\* entered by exactly one prctl, both before that invocation; prctl is never
\* issued a second time, and the entry function runs after the pre-init hook.
C11_ReserveAndRestrictOnceBeforeTarget ==
  /\ Count("mmap") <= 1
  /\ Count("prctl") <= 1
  /\ \A i \in TargetRuns :
       /\ \E j \in IdxOk("mmap", 0) : j < i
       /\ \E j \in IdxOk("prctl", 0) : j < i
  /\ \A i \in Idx("real_main") : \E j \in Idx("real_init") : j < i

\* the target's main has run and the process has ended, after two attempts
\* of the exit system call
C11_Witness ==
  /\ boot.pc = "exited" /\ Count("real_main") = 1 /\ Count("real_init") = 1
  /\ Count("mmap") = 1 /\ Count("prctl") = 1 /\ Count("SYS_exit") = 2

\* C12: when dlopen or dlsym returns null the process ends at once with
\* status DLOPEN_FAILED and no call is made through the unresolved pointer.
C12_ResolutionFailureExits ==
  (IdxOk("dlopen", NULL) \cup IdxOk("dlsym", NULL)) # {}
    => /\ Count("real_libc_start_main") = 0
       /\ boot.pc # "fault"
       /\ boot.pc = "exited" => boot.exit_code = DLOPEN_FAILED

\* C13: when prctl fails the process has ended through _exit with status
\* SECCOMP_FAILED and the target's pre-init hook and entry function have not
\* been invoked; the target runs only in restricted mode.
C13_NoTargetWithoutSeccomp ==
  /\ IdxOk("prctl", EOF) # {}
       => /\ boot.pc = "exited"
          /\ boot.exit_code = SECCOMP_FAILED
          /\ boot.log[Len(boot.log)] = Ev("_exit", SECCOMP_FAILED)
          /\ TargetRuns = {}
  /\ (TargetRuns # {} \/ boot.pc \in {"real_init", "real_main"})
       => boot.seccomp

\* prctl has failed and the process has exited
C13_Witness ==
  /\ IdxOk("prctl", EOF) # {} /\ boot.pc = "exited"
  /\ boot.exit_code = SECCOMP_FAILED /\ ~boot.seccomp

\* what follows the return of real_main with value code: the two flushes,
\* then the exit system call with that code, again and again
AfterMain(k, code) ==
  IF k = 1 THEN Ev("fflush_stdout", 0)
  ELSE IF k = 2 THEN Ev("fflush_stderr", 0)
  ELSE Ev("SYS_exit", code)

\* C14: once real_main has returned n, stdout is flushed, then stderr, then
\* the exit system call is issued with n and issued again each time it
\* returns; nothing else happens, wrapper_main does not return, and a process
\* that has ended has status n.
C14_ExitNeverReturns ==
  \A i \in Idx("real_main") :
    /\ \A k \in 1 .. (Len(boot.log) - i) :
         boot.log[i + k] = AfterMain(k, boot.log[i].arg)
    /\ boot.pc \in {"exit", "SYS_exit", "exited"}
    /\ boot.pc = "exited" => boot.exit_code = boot.log[i].arg
    /\ boot.pc = "exit" <=> Len(boot.log) = i
    /\ boot.pc = "exited" => Len(boot.log) >= i + 3

\* main returned 1, the exit system call returned twice and then ended the
\* process with status 1
C14_Witness ==
  /\ boot.pc = "exited" /\ boot.n = 1 /\ boot.exit_code = 1
  /\ boot.retries = MaxExitRetries /\ Count("real_main") = 1

\* the steps of wrapper_init before prctl, in the order of the source
Priming ==
  <<"fprintf_stdout", "fflush_stdout", "fprintf_stderr", "fflush_stderr",
    "F_GETFL", "F_SETFL", "fgetc">>
PrimingDone == boot.pc = "prctl" \/ Count("prctl") > 0

\* C18: when prctl is issued, the priming steps have all been done in the
\* order of the source (the push-back exactly when a character was read),
\* the flags of fd 0 are what they were at the start and the characters
\* waiting on stdin are the same as before.
C18_PrimedBeforeSeccomp ==
  PrimingDone =>
    \E d \in Idx("real_libc_start_main") :
      LET got == boot.log[d + Len(Priming)].arg
          r == d + Len(Priming) + (IF got = EOF THEN 1 ELSE 2)
      IN  /\ EvNames(d + 1, d + Len(Priming)) = Priming
          /\ boot.log[d + Len(Priming) - 1].arg
               = OrNonblock(boot.log[d + Len(Priming) - 2].arg)
          /\ got # EOF => boot.log[r - 1] = Ev("ungetc", got)
          /\ boot.log[r] = Ev("F_SETFL", boot.log[d + Len(Priming) - 2].arg)
          /\ \A j \in Idx("prctl") : j = r + 1
          /\ boot.fd_flags = boot.fd_flags0
          /\ boot.stdin = boot.stdin0

\* restricted mode has been entered after a character was read from a
\* blocking stdin and pushed back
C18_Witness ==
  /\ boot.seccomp /\ Count("ungetc") = 1 /\ Len(boot.stdin0) = MaxStdin
  /\ boot.fd_open /\ boot.fd_flags0 = 2
  /\ IdxOk("F_SETFL", 2 + O_NONBLOCK) # {}

====
